---- MODULE Spec2Model ----
(***************************************************************************)
(* Model of server.js: the RTMP publish / unpublish handlers, the manual   *)
(* FFmpeg transcoding start and stop functions, the child process exit     *)
(* (close) handler and the SIGINT cleanup handler.                         *)
(*                                                                         *)
(* A child process is a record of the sequence procs; its pid is its index.*)
(* The map ffmpegProcesses is the function registry (0 = no entry).        *)
(* The setTimeout(..., 1000) callbacks of postPublish are the FIFO queue   *)
(* timers: equal delays fire in the order they were armed.                 *)
(*                                                                         *)
(* History fields (not program state, they only record what happened):     *)
(*   timers[i].pubState  the lifecycle state of the stream when the        *)
(*                       Publish that armed the timer was handled          *)
(*   timers[i].unpub     an Unpublish was handled while the timer was      *)
(*                       pending                                           *)
(*   timers[i].id        the identifier the ingest server delivered with   *)
(*                       the Publish that armed the timer                  *)
(***************************************************************************)
EXTENDS Integers, Sequences, FiniteSets, TLC

VARIABLES registry, procs, timers, outDir, service, http

vars == <<registry, procs, timers, outDir, service, http>>

\* ---------------------------------------------------------------- bounds
MaxProcs == 3

\* longest file path handed to the static handler, in characters
MaxPathLen == 6

\* ------------------------------------------------------------- constants
\* the stream key both ingest handlers use
DemoKey == "demo"

\* identifiers the ingest server may publish (stream paths)
StreamIds == {"demo", "cam1"}

\* absent map entry
None == 0

\* what path.join(mediaDir, "live", streamKey) is on disk: absent, an empty
\* directory, a directory holding a playlist and segments, a regular file, or
\* absent and not creatable
DirStates == {"absent", "dir", "files", "file", "blocked"}

\* exit codes the close handler may be handed: clean, error, killed
ExitCodes == {"0", "1", "137"}

\* states of a child: "running" reacts to SIGTERM by terminating, "ignoring"
\* runs and does not react to SIGTERM, "spawnfail" could not be launched
\* (its error and close events are pending), "exited" has terminated and its
\* close event is pending, "closed" has had its close handler run
LiveStates == {"running", "ignoring"}

\* what spawn("ffmpeg", args) can produce
SpawnOutcomes == {"running", "ignoring", "spawnfail"}

Pids == 1..Len(procs)

\* ------------------------------------------------------ static file serving
\* characters of a file path: enough to spell both extensions
PathChars == {".", "m", "3", "u", "8", "t", "s"}

Paths == UNION {[1..n -> PathChars] : n \in 1..MaxPathLen}

M3u8Ext == <<".", "m", "3", "u", "8">>

TsExt == <<".", "t", "s">>

HeaderNames == {"Access-Control-Allow-Origin", "Cache-Control", "Content-Type"}

\* a response on which the handler has set nothing yet
NoHeaders == [h \in HeaderNames |-> "unset"]

\* String.prototype.endsWith
EndsWith(s, suffix) ==
    /\ Len(s) >= Len(suffix)
    /\ SubSeq(s, Len(s) - Len(suffix) + 1, Len(s)) = suffix

\* res.set(name, value)
ResSet(res, name, value) == [res EXCEPT ![name] = value]

\* a setHeaders that disables caching for segments instead of every file
SetHeadersCacheOnSegments(res, filePath) ==
    LET r1 == ResSet(res, "Access-Control-Allow-Origin", "*") IN
    IF EndsWith(filePath, M3u8Ext)
    THEN ResSet(r1, "Content-Type", "application/vnd.apple.mpegurl")
    ELSE IF EndsWith(filePath, TsExt)
    THEN ResSet(ResSet(r1, "Cache-Control", "no-cache, no-store, must-revalidate"),
                "Content-Type", "video/mp2t")
    ELSE r1

\* the setHeaders callback of express.static under /live
SetHeaders(res, filePath) ==
    LET r1 == ResSet(res, "Access-Control-Allow-Origin", "*")
        r2 == ResSet(r1, "Cache-Control", "no-cache, no-store, must-revalidate")
    IN
    IF EndsWith(filePath, M3u8Ext)
    THEN ResSet(r2, "Content-Type", "application/vnd.apple.mpegurl")
    ELSE IF EndsWith(filePath, TsExt)
    THEN ResSet(r2, "Content-Type", "video/mp2t")
    ELSE r2

\* ------------------------------------------------ derived lifecycle state
Live(p) == procs[p].state \in LiveStates

LiveFor(k) == {p \in Pids : procs[p].key = k /\ Live(p)}

PendingFor(k) == {i \in 1..Len(timers) : timers[i].key = k}

\* the lifecycle state of stream k as the registry map, the children and the
\* pending timers determine it
StreamState(k) ==
    IF registry[k] # None /\ Live(registry[k]) THEN "Transcoding"
    ELSE IF \E p \in Pids : procs[p].key = k /\ Live(p) /\ procs[p].sigterm
         THEN "Stopping"
    ELSE IF PendingFor(k) # {} THEN "Publishing"
    ELSE "Idle"

\* ------------------------------------------------------------------ Init
Init ==
    /\ registry = [k \in StreamIds |-> None]
    /\ procs = << >>
    /\ timers = << >>
    /\ outDir \in {f \in [StreamIds -> DirStates] :
                      \A k \in StreamIds \ {DemoKey} : f[k] = "absent"}
    /\ service = "up"
    /\ http = [path |-> << >>, headers |-> NoHeaders, sent |-> FALSE]

\* ------------------------------------------------------------- helpers
\* ChildProcess.kill("SIGTERM"): the signal reaches a child that is still
\* running; on a child that is gone it does nothing
Kill(ps, p) ==
    IF ps[p].state \in LiveStates
    THEN [ps EXCEPT ![p].sigterm = TRUE]
    ELSE ps

\* the handle stopFFmpegTranscoding looks up
StopTarget(k) == registry[k]

\* stopFFmpegTranscoding without its delete
StopDeleteOmitted(reg, k) == reg

\* ffmpegProcesses.delete(streamKey) of stopFFmpegTranscoding
StopDelete(reg, k) == [reg EXCEPT ![k] = None]

\* stopFFmpegTranscoding(streamKey): new <<registry, procs>>
StopFFmpegTranscoding(k) ==
    LET p == StopTarget(k) IN
    IF p # None
    THEN <<StopDelete(registry, k), Kill(procs, p)>>
    ELSE <<registry, procs>>

\* a close handler that never deletes
CloseDeleteNever(reg, k, code) == reg

\* a close handler that deletes inside its code === 0 branch only
CloseDeleteOnSuccess(reg, k, code) ==
    IF code = "0" THEN [reg EXCEPT ![k] = None] ELSE reg

\* ffmpegProcesses.delete(streamKey) of the close handler
CloseDelete(reg, k, code) == [reg EXCEPT ![k] = None]

\* fs.existsSync / fs.mkdirSync of startFFmpegTranscoding: the directory
\* state afterwards; "blocked" makes mkdirSync throw
PrepareDir(d) == IF d = "absent" THEN "dir" ELSE d

\* the input locator handed to ffmpeg: base address, then the stream key
InputUrl(k) == <<"rtmp://localhost:1935/live", k>>

\* the output directory: path.join(mediaDir, "live", streamKey)
OutputDir(k) == <<"media", "live", k>>

\* a child whose error event finds no listener: the event is thrown
OnSpawnErrorUnhandled(svc) == "crashed"

\* ffmpeg.on("error"): the listener logs the message, the service goes on
OnSpawnError(svc) == svc

\* ffmpegProcesses.set(streamKey, ffmpeg)
Register(reg, k, pid) == [reg EXCEPT ![k] = pid]

\* a SIGINT handler whose loop body never runs
ShutdownTargetsNone == {}

\* the set of handles the SIGINT handler signals
ShutdownTargets == {registry[k] : k \in {j \in StreamIds : registry[j] # None}}

RECURSIVE KillAll(_, _)
KillAll(ps, S) ==
    IF S = {} THEN ps
    ELSE LET p == CHOOSE x \in S : TRUE IN KillAll(Kill(ps, p), S \ {p})

\* ---------------------------------------------------------------- actions
\* nms.on("postPublish"): arms a one-second timer for the fixed key
PostPublish(id) ==
    /\ service = "up"
    /\ Len(procs) + Len(timers) < MaxProcs
    /\ timers' = Append(timers, [key |-> DemoKey,
                                 id |-> id,
                                 pubState |-> StreamState(DemoKey),
                                 unpub |-> FALSE])
    /\ UNCHANGED <<registry, procs, outDir, service, http>>

\* the timer callback: startFFmpegTranscoding(streamKey)
StartFFmpegTranscoding(outcome) ==
    /\ service = "up"
    /\ timers # << >>
    /\ UNCHANGED http
    /\ LET t == Head(timers)
           k == t.key
       IN
       /\ timers' = Tail(timers)
       /\ IF outDir[k] = "blocked"
          THEN \* mkdirSync throws inside the timer callback
               /\ service' = "crashed"
               /\ UNCHANGED <<registry, procs, outDir>>
          ELSE /\ outDir' = [outDir EXCEPT ![k] = PrepareDir(outDir[k])]
               /\ procs' = Append(procs,
                      [key |-> k,
                       input |-> InputUrl(k),
                       dir |-> OutputDir(k),
                       state |-> outcome,
                       launched |-> outcome \in LiveStates,
                       sigterm |-> FALSE])
               /\ registry' = Register(registry, k, Len(procs) + 1)
               /\ service' = IF outcome = "spawnfail"
                             THEN OnSpawnError(service)
                             ELSE service

\* nms.on("donePublish"): stopFFmpegTranscoding for the fixed key
DonePublish(id) ==
    /\ service = "up"
    /\ registry' = StopFFmpegTranscoding(DemoKey)[1]
    /\ procs' = StopFFmpegTranscoding(DemoKey)[2]
    /\ timers' = [i \in 1..Len(timers) |->
                    IF timers[i].key = DemoKey
                    THEN [timers[i] EXCEPT !.unpub = TRUE]
                    ELSE timers[i]]
    /\ UNCHANGED <<outDir, service, http>>

\* the child terminates (crash, end of input, or reaction to a signal)
ProcExit(p) ==
    /\ p \in Pids
    /\ Live(p)
    /\ procs' = [procs EXCEPT ![p].state = "exited"]
    /\ UNCHANGED <<registry, timers, outDir, service, http>>

\* the running child writes index.m3u8 and segment_%03d.ts into its output
\* directory
WriteOutput(p) ==
    /\ p \in Pids
    /\ Live(p)
    /\ outDir[procs[p].key] = "dir"
    /\ outDir' = [outDir EXCEPT ![procs[p].key] = "files"]
    /\ UNCHANGED <<registry, procs, timers, service, http>>

\* ffmpeg.on("close"): the exit notification of child p
CloseEvent(p, code) ==
    /\ service = "up"
    /\ p \in Pids
    /\ procs[p].state \in {"exited", "spawnfail"}
    /\ procs' = [procs EXCEPT ![p].state = "closed"]
    /\ registry' = CloseDelete(registry, procs[p].key, code)
    /\ UNCHANGED <<timers, outDir, service, http>>

\* process.on("SIGINT"): signal every tracked child, then process.exit(0)
Sigint ==
    /\ service = "up"
    /\ procs' = KillAll(procs, ShutdownTargets)
    /\ service' = "exited"
    /\ UNCHANGED <<registry, timers, outDir, http>>

Next ==
    \/ \E id \in StreamIds : PostPublish(id)
    \/ \E o \in SpawnOutcomes : StartFFmpegTranscoding(o)
    \/ \E id \in StreamIds : DonePublish(id)
    \/ \E p \in 1..MaxProcs : WriteOutput(p)
    \/ \E p \in 1..MaxProcs : ProcExit(p)
    \/ \E p \in 1..MaxProcs, c \in ExitCodes : CloseEvent(p, c)
    \/ Sigint

Spec == Init /\ [][Next]_vars

\* ------------------------------------------------ static file serving alone
\* a request for a file under /live has been resolved to a file path
HttpInit ==
    /\ registry = [k \in StreamIds |-> None]
    /\ procs = << >>
    /\ timers = << >>
    /\ outDir = [k \in StreamIds |-> "files"]
    /\ service = "up"
    /\ http \in {[path |-> f, headers |-> NoHeaders, sent |-> FALSE] : f \in Paths}

\* express.static calls setHeaders(res, filePath) and sends the response
ServeStatic ==
    /\ service = "up"
    /\ ~http.sent
    /\ http' = [http EXCEPT !.headers = SetHeaders(http.headers, http.path),
                            !.sent = TRUE]
    /\ UNCHANGED <<registry, procs, timers, outDir, service>>

HttpNext == ServeStatic

HttpSpec == HttpInit /\ [][HttpNext]_vars

\* a signalled child that honours SIGTERM terminates; the event loop
\* delivers the close event of a terminated child while the service is up
TermExit(p) ==
    /\ p \in Pids
    /\ procs[p].sigterm
    /\ procs[p].state = "running"
    /\ ProcExit(p)

FairSpec ==
    /\ Init
    /\ [][Next]_vars
    /\ \A p \in 1..MaxProcs : WF_vars(TermExit(p))
    /\ \A p \in 1..MaxProcs : WF_vars(\E c \in ExitCodes : CloseEvent(p, c))

TypeOK ==
    /\ registry \in [StreamIds -> 0..MaxProcs]
    /\ Len(procs) <= MaxProcs
    /\ service \in {"up", "exited", "crashed"}
\* =================================================================
\* Properties
\* =================================================================

\* a step of the timer callback that launched a child
SpawnedLive ==
    /\ Len(procs') = Len(procs) + 1
    /\ procs'[Len(procs')].state \in LiveStates

\* the most recently spawned child of key k (None when there is none)
LastPid(k) ==
    IF \E p \in Pids : procs[p].key = k
    THEN CHOOSE p \in Pids :
            /\ procs[p].key = k
            /\ \A q \in Pids : procs[q].key = k => q <= p
    ELSE None

\* the close handler of child p runs in this step
Closes(p) ==
    /\ p \in Pids
    /\ procs[p].state \in {"exited", "spawnfail"}
    /\ procs'[p].state = "closed"

\* C1: for every stream identifier, at most one child spawned for it is
\* live (spawned and not yet exited) in every reachable state.
C1_AtMostOneLive ==
    \A k \in StreamIds : Cardinality(LiveFor(k)) <= 1

\* C2: a Publish that was followed by an Unpublish while its start was still
\* pending never leads to a spawned child.
C2_UnpublishCancelsPendingStart ==
    [][SpawnedLive => ~Head(timers).unpub]_vars

\* C3: a Publish received while the stream is Transcoding never leads to a
\* second spawned child and leaves the tracked job in place.
C3_DuplicatePublishIgnored ==
    [][SpawnedLive => Head(timers).pubState # "Transcoding"]_vars

\* C4: a Publish received while the previous job was asked to stop and has
\* not exited (Stopping) never leads to a new child.
C4_NoStartWhileStopping ==
    [][SpawnedLive => Head(timers).pubState # "Stopping"]_vars

\* C5: once both an Unpublish and the exit notification of the stream's job
\* have been handled, no job is tracked for the stream, in either order; when
\* the exit notification came first the Unpublish changes nothing.
C5_UnpublishAndExitGiveIdle ==
    [][ /\ \A p \in Pids :
              (Closes(p) /\ procs[p].launched /\ procs[p].sigterm
                 /\ p = LastPid(procs[p].key))
              => registry'[procs[p].key] = None
        /\ \A id \in StreamIds :
              (/\ DonePublish(id)
               /\ LastPid(DemoKey) # None
               /\ procs[LastPid(DemoKey)].launched
               /\ procs[LastPid(DemoKey)].state = "closed"
               /\ ~procs[LastPid(DemoKey)].sigterm)
              => (registry'[DemoKey] = None /\ UNCHANGED <<registry, procs>>)
      ]_vars

\* C5 witness: the latest job of a stream was stopped by an Unpublish, its
\* exit notification has been handled, and nothing is tracked for the stream.
C5_Witness ==
    /\ service = "up"
    /\ \E p \in Pids :
          /\ p = LastPid(procs[p].key)
          /\ procs[p].launched
          /\ procs[p].sigterm
          /\ procs[p].state = "closed"
          /\ registry[procs[p].key] = None

\* C6: once the service has exited on the shutdown signal, no child that was
\* sent a stop request is still running.
C6_ShutdownWaitsForStoppedJobs ==
    service = "exited" => \A p \in Pids : procs[p].sigterm => ~Live(p)

\* C7: once the service has exited on the shutdown signal, every job tracked
\* in the registry that is still running has been sent the stop signal.
C7_ShutdownSignalsTrackedJobs ==
    service = "exited" =>
        \A k \in StreamIds :
            (registry[k] # None /\ Live(registry[k])) => procs[registry[k]].sigterm

\* C7 witness: the service has exited and a tracked, still running job
\* carries the stop signal.
C7_Witness ==
    /\ service = "exited"
    /\ \E k \in StreamIds :
          /\ registry[k] # None
          /\ Live(registry[k])
          /\ procs[registry[k]].sigterm

\* C8: a running job that has been sent the stop signal eventually exits,
\* also when it ignores the signal.
C8_StoppedJobEventuallyExits ==
    \A p \in 1..MaxProcs :
        (p \in Pids /\ Live(p) /\ procs[p].sigterm) ~> (p \in Pids /\ ~Live(p))

\* C9: when the exit notification of a tracked job that was never asked to
\* stop is handled, whatever its exit code, the job is no longer tracked and
\* the step neither spawns a child nor arms a start timer.
C9_UnsolicitedExitGivesIdle ==
    [][\A p \in Pids :
          (/\ Closes(p)
           /\ procs[p].launched
           /\ ~procs[p].sigterm
           /\ registry[procs[p].key] = p)
          => /\ registry'[procs[p].key] = None
             /\ Len(procs') = Len(procs)
             /\ timers' = timers
      ]_vars

\* C9 witness: the only job ever started exited without a stop request, its
\* exit notification has been handled, nothing is tracked or pending.
C9_Witness ==
    /\ service = "up"
    /\ Len(procs) = 1
    /\ procs[1].launched
    /\ ~procs[1].sigterm
    /\ procs[1].state = "closed"
    /\ registry[procs[1].key] = None
    /\ timers = << >>

C11_StreamsIndependent ==
    [][\A id \in StreamIds :
          /\ PostPublish(id) => timers'[Len(timers')].key = id
          /\ DonePublish(id) =>
                \A k \in StreamIds \ {id} :
                    /\ registry'[k] = registry[k]
                    /\ \A p \in Pids : procs[p].key = k => procs'[p] = procs[p]
      ]_vars

\* C12: the child spawned for a Publish(id) is registered under id, reads the
\* input locator of id and writes into the output directory of id.
C12_JobDerivedFromPublishedId ==
    [][SpawnedLive =>
          LET id == Head(timers).id
              p == Len(procs')
          IN /\ procs'[p].key = id
             /\ procs'[p].input = InputUrl(id)
             /\ procs'[p].dir = OutputDir(id)
             /\ registry'[id] = p
      ]_vars

\* C13: an Unpublish handled while the stream is Transcoding sends the stop
\* signal to the tracked job, and once the exit notification of that job has
\* been handled the job is no longer tracked and its output directory holds
\* no output of the job any more (cleanup has run).
C13_StopThenExitCleansUp ==
    [][ /\ \A id \in StreamIds :
              (DonePublish(id) /\ StreamState(DemoKey) = "Transcoding")
              => procs'[registry[DemoKey]].sigterm
        /\ \A p \in Pids :
              (Closes(p) /\ procs[p].launched /\ procs[p].sigterm)
              => /\ registry'[procs[p].key] # p
                 /\ outDir'[procs[p].key] # "files"
      ]_vars

\* a step of the timer callback that attempted a spawn
SpawnAttempt == Len(procs') = Len(procs) + 1

\* C14: a spawn that fails is reported to the error listener and the service
\* stays up; every spawn attempt consumes one start armed by a Publish; the
\* exit notification of the failed child untracks it, arms no start and
\* spawns nothing (no retry), and the service stays up.
C14_SpawnFailureAbortsPublish ==
    [][ /\ SpawnAttempt =>
              /\ Len(timers') = Len(timers) - 1
              /\ ~procs'[Len(procs')].launched => service' = "up"
        /\ \A p \in Pids :
              (Closes(p) /\ ~procs[p].launched)
              => /\ registry'[procs[p].key] # p
                 /\ (p = LastPid(procs[p].key) => registry'[procs[p].key] = None)
                 /\ timers' = timers
                 /\ Len(procs') = Len(procs)
                 /\ service' = "up"
      ]_vars

\* C14 witness: the latest spawn for a stream failed, its exit notification
\* has been handled, nothing is tracked for the stream and the service is up.
C14_Witness ==
    /\ service = "up"
    /\ \E p \in Pids :
          /\ p = LastPid(procs[p].key)
          /\ ~procs[p].launched
          /\ procs[p].state = "closed"
          /\ registry[procs[p].key] = None

\* C15: the timer callback leaves an existing output directory as it is,
\* and when the output path is a non-directory or cannot be created it
\* spawns nothing, tracks nothing new and the service stays up.
C15_UnusableDirAbortsPublish ==
    [][\A o \in SpawnOutcomes :
          StartFFmpegTranscoding(o) =>
             LET k == Head(timers).key IN
             /\ outDir[k] \in {"dir", "files"} => outDir'[k] = outDir[k]
             /\ outDir[k] \in {"file", "blocked"} =>
                    /\ Len(procs') = Len(procs)
                    /\ registry' = registry
                    /\ service' = "up"
      ]_vars

\* C16: a sent response for a manifest (.m3u8) carries Cache-Control
\* "no-cache, no-store, must-revalidate" and the playlist media type, one for
\* a segment (.ts) carries the segment media type, and every sent response
\* permits cross-origin access.
C16_StaticHeaders ==
    http.sent =>
        /\ http.headers["Access-Control-Allow-Origin"] = "*"
        /\ EndsWith(http.path, M3u8Ext) =>
              /\ http.headers["Cache-Control"] = "no-cache, no-store, must-revalidate"
              /\ http.headers["Content-Type"] = "application/vnd.apple.mpegurl"
        /\ EndsWith(http.path, TsExt) =>
              http.headers["Content-Type"] = "video/mp2t"

\* C16 witness: a manifest below a dot-free name has been served.
C16_Witness ==
    /\ http.sent
    /\ EndsWith(http.path, M3u8Ext)
    /\ Len(http.path) > Len(M3u8Ext)

\* C17: every child that is live and has not been sent a termination signal
\* is the handle stored in the registry under its stream key.
C17_NoOrphanedProcess ==
    \A p \in Pids :
        (Live(p) /\ ~procs[p].sigterm) => registry[procs[p].key] = p

\* C18: the exit notification of a child leaves the registry entry of its
\* key alone when that entry holds a different, newer child.
C18_CloseRemovesOwnEntryOnly ==
    [][\A p \in Pids :
          (Closes(p) /\ registry[procs[p].key] \notin {None, p})
          => registry'[procs[p].key] = registry[procs[p].key]
      ]_vars

\* C19 as stated: the registry never holds a child that has already exited,
\* nor, while the service is up, one that was sent the stop signal.
C19_NoExitedOrStoppedHandle ==
    \A k \in StreamIds :
        registry[k] # None =>
            /\ procs[registry[k]].state \notin {"exited", "closed"}
            /\ service = "up" => ~procs[registry[k]].sigterm

\* C19 amended: the registry never holds a child whose exit notification has
\* been handled, nor, while the service is up, one that was sent the stop
\* signal.
C19_NoClosedOrStoppedHandle ==
    \A k \in StreamIds :
        registry[k] # None =>
            /\ procs[registry[k]].state # "closed"
            /\ service = "up" => ~procs[registry[k]].sigterm

\* C19 witness: one child has had its exit notification handled, another was
\* stopped by an Unpublish and still runs, and a third handle is tracked.
C19_Witness ==
    /\ service = "up"
    /\ \E p, q \in Pids :
          /\ procs[p].state = "closed"
          /\ Live(q) /\ procs[q].sigterm
          /\ registry[procs[q].key] \notin {None, p, q}
====
